---- MODULE Spec2Model ----
(***************************************************************************)
(* The EnergyVisualization component (timeManagement app): one three.js    *)
(* session per run of its useEffect, hosted by App, driven by the          *)
(* browser's requestAnimationFrame queue and window resize events.         *)
(*                                                                         *)
(* A session is the closure created by one run of the effect body: its     *)
(* locals (camera, renderer, geometries, materials, currentEnergy) are the *)
(* fields of sessions[s]; the refs of the component and the browser's      *)
(* queues are the other variables.                                         *)
(***************************************************************************)
EXTENDS Integers, Sequences, FiniteSets, TLC

VARIABLES
    selectedEnergy,   \* App: useState(null), the energyLevel prop
    appMounted,       \* the React tree is mounted (FALSE after teardown/crash)
    mountRef,         \* mountRef.current is the container div (TRUE) or null
    mountWidth,       \* clientWidth of the container div
    mountChildren,    \* sessions whose renderer.domElement is a child of the div
    sceneRef,         \* sceneRef.current: session whose scene it holds, 0 = null
    animationIdRef,   \* animationIdRef.current: a frame request id, 0 = null
    listeners,        \* sessions whose handleResize is a window 'resize' listener
    rafPending,       \* requestAnimationFrame queue: set of <<id, session>>
    nextRafId,        \* next id requestAnimationFrame returns
    nSessions,        \* number of effect runs that allocated a scene
    sessions,         \* closure state of every session
    buffers,          \* the Float32Arrays allocated so far, by allocation number
    effectDestroy,    \* session whose cleanup React holds for the effect, 0 = none
    clicks            \* EnergySelector cards clicked after the first selection:
                      \* how many changed the selected level, how many did not

vars == <<selectedEnergy, appMounted, mountRef, mountWidth, mountChildren,
          sceneRef, animationIdRef, listeners, rafPending, nextRafId,
          nSessions, sessions, buffers, effectDestroy, clicks>>

-----------------------------------------------------------------------------
(* Bounds of the model *)

MaxSessions == 2
MaxTicks == 3
MaxCalls == 2
MaxTime == 3
MaxReselects == 2
TrackedParticles == 2

SessionIds == 1..MaxSessions

(* Program constants *)

MountHeight == 400
ParticlesCount == 1000

Widths == {400, 800}

Null == "null"
EnergyIds == {"high", "medium", "low"}

(* Values a parent can pass as the energyLevel prop; "undefined" stands for *)
(* the JavaScript value undefined (its property key is that string).        *)
PropValues == EnergyIds \cup {"undefined", "extreme", "constructor"}

(* JavaScript undefined / NaN where a number is expected *)
Undefined == 0 - 1
NaN == 0 - 2

-----------------------------------------------------------------------------
(* Parameter lookup: energyColors[energyLevel] || energyColors.medium.     *)
(* Colours are the 24-bit integers of the source; intensity is in tenths.  *)

energyColors ==
    [high   |-> [truthy |-> TRUE, color |-> 16739179, intensity |-> 20],
     medium |-> [truthy |-> TRUE, color |-> 5164484,  intensity |-> 15],
     low    |-> [truthy |-> TRUE, color |-> 9807270,  intensity |-> 10]]

(* Keys every object literal inherits from Object.prototype: the lookup    *)
(* yields a function object, which is truthy and has neither a color nor   *)
(* an intensity property.                                                  *)
ObjectPrototypeKeys == {"constructor", "toString", "valueOf", "hasOwnProperty"}

UndefinedValue == [truthy |-> FALSE, color |-> Undefined, intensity |-> Undefined]
InheritedMember == [truthy |-> TRUE, color |-> Undefined, intensity |-> Undefined]

PropertyGet(key) ==
    IF key \in DOMAIN energyColors THEN energyColors[key]
    ELSE IF key \in ObjectPrototypeKeys THEN InheritedMember
    ELSE UndefinedValue

(* The lookup with the fallback taken for every key *)
currentEnergyAlwaysMedium(energyLevel) == energyColors.medium

currentEnergy(energyLevel) ==
    LET v == PropertyGet(energyLevel)
    IN  IF v.truthy THEN v ELSE energyColors.medium

(* a + b in JavaScript, where a may be undefined or NaN and b is a number *)
JsAdd(a, b) == IF a \in {Undefined, NaN} THEN NaN ELSE a + b

(* round(1000 * Math.sin(k)) for whole k, 0 <= k <= 24, and sin(-k) = -sin(k) *)
SinTable == <<0, 841, 909, 141, 0 - 757, 0 - 959, 0 - 279, 657, 989, 412,
              0 - 544, 0 - 1000, 0 - 537, 420, 991, 650, 0 - 288, 0 - 961,
              0 - 751, 150, 913, 837, 0 - 9, 0 - 846, 0 - 906>>

Sin1000(k) == IF k >= 0 THEN SinTable[k + 1] ELSE 0 - SinTable[(0 - k) + 1]

(* Elapsed time is counted in whole seconds, coordinates in millionths. *)
Micro == 1000 * 1000

(* The outcomes of the random fill the model draws: 3 coordinates for each *)
(* of the first TrackedParticles particles (x, y, z, x, y, z, ...), every  *)
(* particle with its own x.                                                *)
FillOf(c) ==
    [i \in 1..(3 * TrackedParticles) |->
        IF i % 3 = 1 THEN (c + (i \div 3)) * Micro
        ELSE IF i % 3 = 2 THEN (0 - c) * Micro
        ELSE 2 * c * Micro]

Fills == {FillOf(0 - 1), FillOf(1)}

DefaultFill == FillOf(1)

NoBuffer == [len |-> 0, data |-> << >>, writes |-> << >>]

-----------------------------------------------------------------------------
(* Session closures *)

Resources == {"particlesGeometry", "particlesMaterial", "orbGeometry",
              "orbMaterial", "renderer"}

NoSession ==
    [built         |-> "none",
     level         |-> Null,
     energy        |-> UndefinedValue,
     cameraAspect  |-> <<0, 0>>,
     rendererSize  |-> <<0, 0>>,
     positionArray |-> 0,
     initial       |-> << >>,
     time          |-> 0,
     times         |-> << >>,
     tickSteps     |-> << >>,
     particlesRotation |-> <<0, 0>>,
     orbRotation   |-> <<0, 0>>,
     orbScale      |-> 1000,
     materialColor |-> Undefined,
     orbColor      |-> Undefined,
     particlesOpacity |-> 0,
     orbOpacity    |-> 0,
     lightColor    |-> Undefined,
     lightIntensity |-> Undefined,
     lightBase     |-> Undefined,
     broken        |-> FALSE,
     ticks         |-> 0,
     bufferWrites  |-> 0,
     drawCalls     |-> 0,
     errors        |-> 0,
     lastTickThrew |-> FALSE,
     cleanupRuns   |-> 0,
     cleanupErrors |-> 0,
     disposed      |-> [r \in Resources |-> 0],
     log           |-> << >>]

(* The whole state as one record, so that a handler is a function from     *)
(* state to state and handlers compose in the order the code calls them.   *)
(* threw is the exception in flight ("none" when the handler returned).    *)
World ==
    [selectedEnergy |-> selectedEnergy, appMounted |-> appMounted,
     mountRef |-> mountRef, mountWidth |-> mountWidth,
     mountChildren |-> mountChildren, sceneRef |-> sceneRef,
     animationIdRef |-> animationIdRef, listeners |-> listeners,
     rafPending |-> rafPending, nextRafId |-> nextRafId,
     nSessions |-> nSessions, sessions |-> sessions, buffers |-> buffers,
     effectDestroy |-> effectDestroy, clicks |-> clicks, threw |-> "none"]

Install(w) ==
    /\ selectedEnergy' = w.selectedEnergy
    /\ appMounted' = w.appMounted
    /\ mountRef' = w.mountRef
    /\ mountWidth' = w.mountWidth
    /\ mountChildren' = w.mountChildren
    /\ sceneRef' = w.sceneRef
    /\ animationIdRef' = w.animationIdRef
    /\ listeners' = w.listeners
    /\ rafPending' = w.rafPending
    /\ nextRafId' = w.nextRafId
    /\ nSessions' = w.nSessions
    /\ sessions' = w.sessions
    /\ buffers' = w.buffers
    /\ effectDestroy' = w.effectDestroy
    /\ clicks' = w.clicks

Log(w, s, event) == [w EXCEPT !.sessions[s].log = Append(@, event)]

-----------------------------------------------------------------------------
(* animate: one tick *)

(* A tick that requests a frame without storing its id in the ref *)
RequestFrameUnstored(w, s) ==
    [w EXCEPT !.rafPending = @ \cup {<<w.nextRafId, s>>},
              !.nextRafId = @ + 1,
              !.sessions[s].tickSteps = <<"requestAnimationFrame">>]

(* A tick that requests two frames *)
RequestFrameTwice(w, s) ==
    [w EXCEPT !.rafPending = @ \cup {<<w.nextRafId, s>>, <<w.nextRafId + 1, s>>},
              !.animationIdRef = w.nextRafId + 1,
              !.nextRafId = @ + 2,
              !.sessions[s].tickSteps = <<"requestAnimationFrame">>]

(* line 82: animationIdRef.current = requestAnimationFrame(animate) *)
RequestFrame(w, s) ==
    [w EXCEPT !.rafPending = @ \cup {<<w.nextRafId, s>>},
              !.animationIdRef = w.nextRafId,
              !.nextRafId = @ + 1,
              !.sessions[s].tickSteps = <<"requestAnimationFrame">>]

(* A particle step that moves every coordinate *)
MoveParticlesAllAxes(data, t) ==
    [i \in DOMAIN data |-> data[i] + Sin1000(t)]

(* lines 96-100: positions[i3 + 1] += Math.sin(time + positions[i3]) * 0.001 *)
(* for every particle, on the array the geometry's attribute holds          *)
MoveParticles(data, t) ==
    [i \in DOMAIN data |->
        IF i % 3 = 2
        THEN data[i] + Sin1000(t + (data[i - 1] \div Micro))
        ELSE data[i]]

(* lines 97-100: the loop assigns positions[i3 + 1] once for every i *)
CountWrites(writes) ==
    [i \in DOMAIN writes |-> IF i % 3 = 2 THEN writes[i] + 1 ELSE writes[i]]

(* A tick that fades the particles and repaints the orb *)
UpdateFrameRecolouring(w, s, t) ==
    [w EXCEPT !.sessions[s].ticks = @ + 1,
              !.sessions[s].time = t,
              !.sessions[s].times = Append(@, t),
              !.sessions[s].particlesOpacity = 80 - t,
              !.sessions[s].orbColor = t]

(* A tick that grows the position array by one particle *)
UpdateFrameResizing(w, s, t) ==
    [w EXCEPT !.sessions[s].ticks = @ + 1,
              !.sessions[s].time = t,
              !.sessions[s].times = Append(@, t),
              !.buffers[w.sessions[s].positionArray].len = @ + 3]

(* A tick whose particle step also depends on the frame request counter *)
UpdateFrameDrifting(w, s, t) ==
    [w EXCEPT !.sessions[s].ticks = @ + 1,
              !.sessions[s].time = t,
              !.sessions[s].times = Append(@, t),
              !.buffers[w.sessions[s].positionArray].data =
                  [i \in DOMAIN @ |-> @[i] + w.nextRafId]]

(* lines 84-104, with t the value clock.getElapsedTime() returns.          *)
(* Rotations are in tenths of a radian, the orb scale and the light        *)
(* intensity in thousandths; lightBase is the intensity of the parameter   *)
(* set the tick read (in tenths, as in energyColors).                      *)
UpdateFrame(w, s, t) ==
    LET e == w.sessions[s].energy
        b == w.sessions[s].positionArray
    IN  [w EXCEPT !.sessions[s].ticks = @ + 1,
                  !.sessions[s].time = t,
                  !.sessions[s].times = Append(@, t),
                  !.sessions[s].tickSteps = @ \o <<"getElapsedTime", "update">>,
                  !.sessions[s].particlesRotation = <<t, 2 * t>>,
                  !.sessions[s].orbRotation = <<5 * t, 3 * t>>,
                  !.sessions[s].orbScale = 1000 + (Sin1000(t) \div 5),
                  !.buffers[b].data = MoveParticles(@, t),
                  !.buffers[b].writes = CountWrites(@),
                  !.sessions[s].bufferWrites = @ + 1,
                  !.sessions[s].lightBase = e.intensity,
                  !.sessions[s].lightIntensity =
                      JsAdd(IF e.intensity = Undefined THEN Undefined
                            ELSE e.intensity * 100,
                            Sin1000(2 * t) \div 2)]

(* A draw that first sizes the renderer to the canvas default, 300 x 150 *)
DrawResizing(w, s) ==
    [w EXCEPT !.sessions[s].drawCalls = @ + 1,
              !.sessions[s].tickSteps = Append(@, "render"),
              !.sessions[s].rendererSize = <<300, 150>>,
              !.sessions[s].lastTickThrew = FALSE]

(* line 106: renderer.render(scene, camera); a broken renderer throws *)
Draw(w, s) ==
    IF w.sessions[s].broken
    THEN [w EXCEPT !.sessions[s].drawCalls = @ + 1,
                   !.sessions[s].tickSteps = Append(@, "render"),
                   !.sessions[s].errors = @ + 1,
                   !.sessions[s].lastTickThrew = TRUE,
                   !.threw = "RenderFailure"]
    ELSE [w EXCEPT !.sessions[s].drawCalls = @ + 1,
                   !.sessions[s].tickSteps = Append(@, "render"),
                   !.sessions[s].lastTickThrew = FALSE]

(* A first call that only queues the first frame *)
animateDeferred(w, s, t) == RequestFrame(w, s)

animate(w, s, t) == Draw(UpdateFrame(RequestFrame(w, s), s, t), s)

(* A resize handler that keeps the first size it saw *)
handleResizeFirstWins(w, s) == w

-----------------------------------------------------------------------------
(* handleResize *)

handleResize(w, s) ==
    IF ~w.mountRef THEN w
    ELSE [w EXCEPT !.sessions[s].cameraAspect = <<w.mountWidth, MountHeight>>,
                   !.sessions[s].rendererSize = <<w.mountWidth, MountHeight>>]

-----------------------------------------------------------------------------
(* The cleanup function the effect returns *)

(* A cleanup that leaves the listener registered *)
RemoveListenerKept(w, s) == w

(* line 123 *)
RemoveListener(w, s) ==
    Log([w EXCEPT !.listeners = @ \ {s}], s, "removeEventListener")

(* CancelFrame with the cancellation forgotten *)
CancelFrameSkipped(w, s) == w

(* lines 124-126: cancels whatever id the shared ref holds *)
CancelFrame(w, s) ==
    IF w.animationIdRef = 0 THEN w
    ELSE Log([w EXCEPT !.rafPending = {r \in @ : r[1] # w.animationIdRef}],
             s, "cancelAnimationFrame")

(* A cleanup that leaves the canvas in the container *)
RemoveCanvasSkipped(w, s) == w

(* RemoveCanvas without the null check of mountRef.current: the call       *)
(* throws when the container's ref is already detached                     *)
RemoveCanvasUnguarded(w, s) ==
    IF w.mountRef /\ s \in w.mountChildren
    THEN Log([w EXCEPT !.mountChildren = @ \ {s}], s, "removeChild")
    ELSE [w EXCEPT !.threw = "TypeError",
                   !.sessions[s].cleanupErrors = @ + 1]

(* lines 127-129: Node.removeChild throws NotFoundError when the node is   *)
(* not a child of the receiver                                             *)
RemoveCanvas(w, s) ==
    IF ~w.mountRef THEN w
    ELSE IF s \in w.mountChildren
         THEN Log([w EXCEPT !.mountChildren = @ \ {s}], s, "removeChild")
         ELSE [w EXCEPT !.threw = "NotFoundError",
                        !.sessions[s].cleanupErrors = @ + 1]

Dispose(w, s, r) ==
    Log([w EXCEPT !.sessions[s].disposed[r] = @ + 1], s, r)

(* lines 130-134 *)
DisposeAll(w, s) ==
    Dispose(Dispose(Dispose(Dispose(Dispose(w,
        s, "particlesGeometry"),
        s, "particlesMaterial"),
        s, "orbGeometry"),
        s, "orbMaterial"),
        s, "renderer")

cleanup(w, s) ==
    LET w0 == [w EXCEPT !.sessions[s].cleanupRuns = @ + 1]
        w3 == RemoveCanvas(CancelFrame(RemoveListener(w0, s), s), s)
    IN  IF w3.threw # "none" THEN w3 ELSE DisposeAll(w3, s)


-----------------------------------------------------------------------------
(* The effect body: one session construction *)

(* lines 14-24: scene, sceneRef.current, camera *)
CreateScene(w, s, level) ==
    [w EXCEPT !.nSessions = s,
              !.sceneRef = s,
              !.sessions[s] = [NoSession EXCEPT
                  !.built = "noContext",
                  !.level = level,
                  !.cameraAspect = <<w.mountWidth, MountHeight>>]]

(* lines 26-29: renderer, setSize, appendChild *)
CreateRenderer(w, s, broken) ==
    [w EXCEPT !.mountChildren = @ \cup {s},
              !.sessions[s].rendererSize = <<w.mountWidth, MountHeight>>,
              !.sessions[s].broken = broken]

(* A construction that fills the first array again instead of allocating *)
CreateBufferShared(w, s, fill) ==
    [w EXCEPT !.buffers[1] = [len |-> ParticlesCount * 3, data |-> fill,
                              writes |-> [i \in DOMAIN fill |-> 0]],
              !.sessions[s].positionArray = 1,
              !.sessions[s].initial = fill]

(* lines 41-49: new Float32Array(particlesCount * 3), filled at random,    *)
(* becomes the geometry's position attribute                               *)
CreateBuffer(w, s, fill) ==
    LET b == Cardinality({i \in DOMAIN w.buffers : w.buffers[i].len > 0}) + 1
    IN  [w EXCEPT !.buffers[b] = [len |-> ParticlesCount * 3, data |-> fill,
                                  writes |-> [i \in DOMAIN fill |-> 0]],
                  !.sessions[s].positionArray = b,
                  !.sessions[s].initial = fill]

(* lines 32-38 and 51-75: parameter set, materials, orb, light; a light    *)
(* constructed with an undefined intensity has intensity 1. materialColor  *)
(* is the colour of particlesMaterial; opacities are in hundredths.        *)
CreateActors(w, s) ==
    LET e == currentEnergy(w.sessions[s].level)
    IN  [w EXCEPT !.sessions[s].energy = e,
                  !.sessions[s].materialColor = e.color,
                  !.sessions[s].particlesOpacity = 80,
                  !.sessions[s].orbColor = e.color,
                  !.sessions[s].orbOpacity = 60,
                  !.sessions[s].lightColor = e.color,
                  !.sessions[s].lightIntensity =
                      IF e.intensity = Undefined THEN 1000
                      ELSE e.intensity * 100]

(* A construction that registers no listener *)
RegisterNothing(w, s) ==
    [w EXCEPT !.sessions[s].built = "ok",
              !.effectDestroy = s]

(* lines 112-135: the listener is registered and the cleanup returned *)
Register(w, s) ==
    [w EXCEPT !.listeners = @ \cup {s},
              !.sessions[s].built = "ok",
              !.effectDestroy = s]

(* glOk: new THREE.WebGLRenderer got a context; broken: its first draw     *)
(* throws; fill: what the random fill produced. A throw leaves the effect  *)
(* without a cleanup function. The first call of clock.getElapsedTime()    *)
(* starts the clock and returns 0.                                         *)
effect(w, level, glOk, broken, fill) ==
    IF ~w.mountRef THEN w
    ELSE LET s  == w.nSessions + 1
             w1 == CreateScene(w, s, level)
             w2 == CreateActors(CreateBuffer(CreateRenderer(w1, s, broken),
                                             s, fill), s)
             w3 == animate(w2, s, 0)
         IN  IF ~glOk THEN [w1 EXCEPT !.threw = "ContextError"]
             ELSE IF w3.threw # "none"
                  THEN [w3 EXCEPT !.sessions[s].built = "firstTickThrew"]
                  ELSE Register(w3, s)

(* React, on an error thrown by an effect with no error boundary above it, *)
(* unmounts the whole tree: the container's ref is detached.               *)
Crash(w) == [w EXCEPT !.appMounted = FALSE, !.mountRef = FALSE,
                      !.effectDestroy = 0]

(* The previous run's cleanup, when there is one *)
RunDestroy(w) ==
    IF w.effectDestroy = 0 THEN w
    ELSE [cleanup(w, w.effectDestroy) EXCEPT !.effectDestroy = 0]

(* SetEnergyLevel with the previous run's cleanup left out: the effect     *)
(* body runs again over a live session                                     *)
SetEnergyLevelNoCleanup(w, level, glOk, broken, fill) ==
    LET w3 == effect([w EXCEPT !.selectedEnergy = level, !.mountRef = TRUE],
                     level, glOk, broken, fill)
    IN  IF w3.threw # "none" THEN Crash(w3) ELSE w3

(* A new energyLevel prop reaches the component: React renders (the        *)
(* container exists), runs the previous cleanup, then the effect body.     *)
SetEnergyLevel(w, level, glOk, broken, fill) ==
    LET w1 == [w EXCEPT !.selectedEnergy = level, !.mountRef = TRUE]
        w2 == RunDestroy(w1)
        w3 == effect([w2 EXCEPT !.threw = "none"], level, glOk, broken, fill)
    IN  IF w2.threw # "none" \/ w3.threw # "none"
        THEN Crash(w3) ELSE w3

-----------------------------------------------------------------------------
(* Actions of the hosted program *)

(* EnergySelector lines 66-76: a card is clicked. The first selection      *)
(* (from null) is not counted.                                             *)
CountClick(w, level) ==
    IF level = w.selectedEnergy THEN [w EXCEPT !.clicks.same = @ + 1]
    ELSE IF w.selectedEnergy = Null THEN w
    ELSE [w EXCEPT !.clicks.changed = @ + 1]

Init ==
    /\ selectedEnergy = Null
    /\ appMounted = TRUE
    /\ mountRef = FALSE
    /\ mountWidth \in Widths
    /\ mountChildren = {}
    /\ sceneRef = 0
    /\ animationIdRef = 0
    /\ listeners = {}
    /\ rafPending = {}
    /\ nextRafId = 1
    /\ nSessions = 0
    /\ sessions = [s \in SessionIds |-> NoSession]
    /\ buffers = [b \in SessionIds |-> NoBuffer]
    /\ effectDestroy = 0
    /\ clicks = [changed |-> 0, same |-> 0]

(* Cards that toggle: clicking one while a level is selected clears the    *)
(* selection, and App unmounts the visualization                           *)
SelectToggle(level) ==
    /\ appMounted
    /\ level # selectedEnergy
    /\ nSessions < MaxSessions
    /\ IF selectedEnergy = Null
       THEN Install(SetEnergyLevel(World, level, TRUE, FALSE, DefaultFill))
       ELSE Install([RunDestroy(World) EXCEPT !.selectedEnergy = Null,
                                              !.mountRef = FALSE])

(* EnergySelector: onClick={() => onEnergySelect(energy.id)}; selecting    *)
(* the selected level again re-runs nothing. The random fill has the one   *)
(* outcome DefaultFill here; SpecAnim draws it.                            *)
Select(level) ==
    /\ appMounted
    /\ level # selectedEnergy
    /\ nSessions < MaxSessions
    /\ \E glOk \in BOOLEAN, broken \in BOOLEAN :
          Install(SetEnergyLevel(CountClick(World, level), level, glOk,
                                 broken, DefaultFill))

(* The browser runs one pending frame callback, one second after the       *)
(* session's previous tick; SpecAnim draws the time.                       *)
Tick ==
    \E r \in rafPending :
        /\ sessions[r[2]].ticks < MaxTicks
        /\ Install(animate([World EXCEPT !.rafPending = @ \ {r}], r[2],
                           sessions[r[2]].time + 1))

DispatchResize(w) ==
    [w EXCEPT !.sessions = [s \in SessionIds |->
        IF s \in w.listeners THEN handleResize(w, s).sessions[s]
        ELSE w.sessions[s]]]

(* The window is resized while the container exists: the container takes   *)
(* a new width and the browser calls every registered 'resize' listener.   *)
WindowResize(width) ==
    /\ mountRef
    /\ width # mountWidth
    /\ Install(DispatchResize([World EXCEPT !.mountWidth = width]))

(* The renderer of a live session starts to fail (every later draw throws) *)
InjectFailure(s) ==
    /\ sessions[s].built = "ok"
    /\ sessions[s].cleanupRuns = 0
    /\ ~sessions[s].broken
    /\ sessions' = [sessions EXCEPT ![s].broken = TRUE]
    /\ UNCHANGED <<selectedEnergy, appMounted, mountRef, mountWidth,
                   mountChildren, sceneRef, animationIdRef, listeners,
                   rafPending, nextRafId, nSessions, buffers, effectDestroy,
                   clicks>>

(* The host tears the tree down. Whether the container's ref is already    *)
(* detached when the cleanup runs depends on the React version.            *)
Unmount ==
    /\ appMounted
    /\ \E detached \in BOOLEAN :
          LET w1 == [World EXCEPT !.appMounted = FALSE,
                                  !.mountRef = @ /\ ~detached]
          IN  Install([RunDestroy(w1) EXCEPT !.mountRef = FALSE])

Next ==
    \/ \E level \in EnergyIds : Select(level)
    \/ Tick
    \/ \E width \in Widths : WindowResize(width)
    \/ \E s \in SessionIds : InjectFailure(s)
    \/ Unmount

Spec == Init /\ [][Next]_vars


-----------------------------------------------------------------------------
(* The component under other callers: a parent that passes any            *)
(* energyLevel prop (SpecProps), and callers that kept a session's        *)
(* closures (the cleanup, animate, handleResize) and call them after the  *)
(* session was disposed (SpecContract).                                   *)

RenderWith(level) ==
    /\ appMounted
    /\ level # selectedEnergy
    /\ nSessions < MaxSessions
    /\ \E glOk \in BOOLEAN, broken \in BOOLEAN :
          Install(SetEnergyLevel(World, level, glOk, broken, DefaultFill))

CallCleanup(s) ==
    /\ sessions[s].built = "ok"
    /\ sessions[s].cleanupRuns >= 1
    /\ sessions[s].cleanupRuns < MaxCalls
    /\ Install(cleanup(World, s))

CallAnimate(s) ==
    /\ sessions[s].built = "ok"
    /\ sessions[s].cleanupRuns >= 1
    /\ sessions[s].ticks < MaxTicks
    /\ Install(animate(World, s, sessions[s].time + 1))

CallHandleResize(s) ==
    /\ sessions[s].built = "ok"
    /\ sessions[s].cleanupRuns >= 1
    /\ Install(handleResize(World, s))

NextProps ==
    \/ Next
    \/ \E level \in PropValues \ EnergyIds : RenderWith(level)

SpecProps == Init /\ [][NextProps]_vars

NextContract ==
    \/ Next
    \/ \E s \in SessionIds : CallCleanup(s)
    \/ \E s \in SessionIds : CallAnimate(s)
    \/ \E s \in SessionIds : CallHandleResize(s)

SpecContract == Init /\ [][NextContract]_vars

-----------------------------------------------------------------------------
(* The animation alone: every outcome of the random fill in Fills, and     *)
(* frames at any later whole second up to MaxTime. The renderer works.     *)

AnimSelect(level, fill) ==
    /\ appMounted
    /\ level # selectedEnergy
    /\ nSessions < MaxSessions
    /\ Install(SetEnergyLevel(CountClick(World, level), level, TRUE, FALSE,
                               fill))

AnimTick(t) ==
    \E r \in rafPending :
        /\ sessions[r[2]].ticks < MaxTicks
        /\ t > sessions[r[2]].time
        /\ Install(animate([World EXCEPT !.rafPending = @ \ {r}], r[2], t))

NextAnim ==
    \/ \E level \in EnergyIds, fill \in Fills : AnimSelect(level, fill)
    \/ \E t \in 1..MaxTime : AnimTick(t)

SpecAnim == Init /\ [][NextAnim]_vars

-----------------------------------------------------------------------------
(* The page's layout changes the width of the container (its style is     *)
(* width: '100%' of its column) while the window keeps its size: the      *)
(* browser dispatches no 'resize' event. Every pending frame callback is   *)
(* eventually run by the browser. The renderer works.                      *)

LayoutSelect(level) ==
    /\ appMounted
    /\ level # selectedEnergy
    /\ nSessions < MaxSessions
    /\ Install(SetEnergyLevel(CountClick(World, level), level, TRUE, FALSE,
                               DefaultFill))

LayoutChange(width) ==
    /\ mountRef
    /\ width # mountWidth
    /\ mountWidth' = width
    /\ UNCHANGED <<selectedEnergy, appMounted, mountRef, mountChildren,
                   sceneRef, animationIdRef, listeners, rafPending,
                   nextRafId, nSessions, sessions, buffers, effectDestroy,
                   clicks>>

NextLayout ==
    \/ \E level \in EnergyIds : LayoutSelect(level)
    \/ Tick
    \/ \E width \in Widths : WindowResize(width)
    \/ \E width \in Widths : LayoutChange(width)
    \/ Unmount

SpecLayout == Init /\ [][NextLayout]_vars /\ WF_vars(Tick)

-----------------------------------------------------------------------------
(* The card of the selected level is clicked again: setSelectedEnergy gets *)
(* the value the state already has, React re-renders nothing and the       *)
(* effect, whose dependency [energyLevel] is unchanged, is not run.        *)

SetSameLevelRerun(w, level) ==
    SetEnergyLevel(w, level, TRUE, FALSE, DefaultFill)

SetSameLevel(w, level) == w

Reselect(level) ==
    /\ appMounted
    /\ level = selectedEnergy
    /\ clicks.same < MaxReselects
    /\ Install(SetSameLevel(CountClick(World, level), level))

NextSelect ==
    \/ \E level \in EnergyIds : LayoutSelect(level)
    \/ \E level \in EnergyIds : Reselect(level)
    \/ Tick
    \/ Unmount

SpecSelect == Init /\ [][NextSelect]_vars

-----------------------------------------------------------------------------
(* Vocabulary of the properties *)

Active(s) == sessions[s].built = "ok" /\ sessions[s].cleanupRuns = 0
Disposed(s) == sessions[s].built = "ok" /\ sessions[s].cleanupRuns >= 1

(* Resources were allocated and no cleanup has run *)
Live(s) == sessions[s].built \in {"ok", "firstTickThrew"}
           /\ sessions[s].cleanupRuns = 0

Pending(s) == {r \in rafPending : r[2] = s}

Occurrences(seq, e) == Cardinality({i \in DOMAIN seq : seq[i] = e})

DisposedResources == {<<s, r>> \in SessionIds \X Resources :
                         sessions[s].disposed[r] > 0}

(* The canvas of s is no longer shown: removed from the container, or the  *)
(* container itself is gone with the unmounted tree.                       *)
CanvasReleased(s) == s \notin mountChildren \/ ~appMounted

ReleasedOnce(s) ==
    /\ \A r \in Resources : sessions[s].disposed[r] = 1
    /\ CanvasReleased(s)
    /\ Occurrences(sessions[s].log, "removeChild") <= 1
    /\ s \notin listeners
    /\ Occurrences(sessions[s].log, "removeEventListener") = 1
    /\ Pending(s) = {}
    /\ Occurrences(sessions[s].log, "cancelAnimationFrame") = 1


-----------------------------------------------------------------------------
(* C1: running the cleanup again on a disposed session, with the container *)
(* still present, throws nothing and leaves the container's children, the  *)
(* registered listeners, the pending frame requests and the set of         *)
(* disposed resources as they were. (SpecContract)                         *)
C1_DisposeIdempotent ==
    [][\A s \in SessionIds :
          (Disposed(s) /\ mountRef
             /\ sessions'[s].cleanupRuns > sessions[s].cleanupRuns)
          => /\ sessions'[s].cleanupErrors = sessions[s].cleanupErrors
             /\ mountChildren' = mountChildren
             /\ listeners' = listeners
             /\ rafPending' = rafPending
             /\ DisposedResources' = DisposedResources]_vars

(* C2: in the cleanup the frame request is cancelled before any dispose()  *)
(* call, a disposed session has no request pending, and no tick of a       *)
(* session runs once one of its resources has been disposed. (Spec)        *)
CancelPrecedesDispose(s) ==
    LET log == sessions[s].log
    IN  \A i \in DOMAIN log :
            log[i] \in Resources
            => \E j \in 1..(i - 1) : log[j] = "cancelAnimationFrame"

SomeDisposed(s) == \E r \in Resources : sessions[s].disposed[r] > 0

C2_CancelBeforeRelease ==
    /\ [](\A s \in SessionIds :
             /\ CancelPrecedesDispose(s)
             /\ SomeDisposed(s) => Pending(s) = {})
    /\ [][\A s \in SessionIds :
             SomeDisposed(s) => sessions'[s].ticks = sessions[s].ticks]_vars

(* A session that ticked from the frame queue was replaced and disposed,   *)
(* and its successor went on ticking.                                      *)
C2_Witness ==
    /\ Disposed(1) /\ sessions[1].ticks >= 2
    /\ Occurrences(sessions[1].log, "cancelAnimationFrame") = 1
    /\ Active(2) /\ sessions[2].ticks >= 2

(* C3: animate called on a disposed session is a no-op: it throws nothing, *)
(* requests no frame, writes nothing to the particle buffer and issues no  *)
(* draw call. (SpecContract)                                               *)
C3_AnimateAfterDisposeNoOp ==
    [][\A s \in SessionIds :
          (Disposed(s) /\ sessions'[s].ticks > sessions[s].ticks)
          => /\ sessions'[s].errors = sessions[s].errors
             /\ rafPending' \subseteq rafPending
             /\ sessions'[s].bufferWrites = sessions[s].bufferWrites
             /\ sessions'[s].drawCalls = sessions[s].drawCalls]_vars

(* C4: once a session is disposed, its camera aspect and renderer size     *)
(* never change again, whoever calls handleResize and even with the        *)
(* container present. (SpecContract)                                       *)
C4_ResizeAfterDisposeNoOp ==
    [][\A s \in SessionIds :
          Disposed(s)
          => /\ sessions'[s].cameraAspect = sessions[s].cameraAspect
             /\ sessions'[s].rendererSize = sessions[s].rendererSize]_vars

(* C5: the scheduler fails closed: after a tick whose draw threw, no frame *)
(* request of that session is pending. (Spec)                              *)
C5_FailsClosed ==
    \A s \in SessionIds : sessions[s].lastTickThrew => Pending(s) = {}

(* C6: a constructed session, whose draws all fail from some tick on,      *)
(* surfaces no more than the one error over the rest of its life. (Spec)   *)
C6_ReportedOnce ==
    \A s \in SessionIds : sessions[s].built = "ok" => sessions[s].errors <= 1

(* C7: at most one session holds resources without having been cleaned    *)
(* up; every session but the newest was constructed completely and has    *)
(* been cleaned up completely; and the parameter set a session's ticks     *)
(* read is the one looked up from the level it was constructed with.      *)
(* (Spec)                                                                  *)
C7_NoLiveMutation ==
    /\ Cardinality({s \in SessionIds : Live(s)}) <= 1
    /\ \A s \in 1..nSessions :
          s < nSessions => sessions[s].built = "ok" /\ ReleasedOnce(s)
    /\ \A s \in 1..nSessions :
          sessions[s].built \in {"ok", "firstTickThrew"}
          => /\ sessions[s].energy = currentEnergy(sessions[s].level)
             /\ sessions[s].lightBase = sessions[s].energy.intensity

(* The level was changed under a ticking session, and the new session      *)
(* ticks with its own parameters.                                          *)
C7_Witness ==
    /\ nSessions = 2 /\ Disposed(1) /\ Active(2)
    /\ sessions[1].ticks >= 2 /\ sessions[2].ticks >= 2
    /\ sessions[1].energy # sessions[2].energy
    /\ selectedEnergy = sessions[2].level

(* C8: every session that was replaced or unmounted has each resource it   *)
(* allocated released exactly once. (Spec)                                 *)
C8_ReleasedExactlyOnce ==
    \A s \in 1..nSessions :
        (s < nSessions \/ ~appMounted)
        => (sessions[s].built \in {"ok", "firstTickThrew"} => ReleasedOnce(s))

(* C9: a session of level high disposed after its construction, with no    *)
(* frame rendered from the queue in between, was cleaned up without an     *)
(* exception and has everything released. (Spec)                           *)
C9_ScenarioA ==
    \A s \in SessionIds :
        (sessions[s].level = "high" /\ Disposed(s) /\ sessions[s].ticks = 1)
        => /\ sessions[s].cleanupErrors = 0
           /\ sessions[s].errors = 0
           /\ ReleasedOnce(s)

C9_Witness ==
    \E s \in SessionIds :
        /\ sessions[s].level = "high" /\ Disposed(s) /\ sessions[s].ticks = 1
        /\ ReleasedOnce(s)

(* C10: a session constructed with an unrecognized energy level has the    *)
(* medium parameter set. (SpecProps)                                       *)
C10_DefaultForUnrecognized ==
    \A s \in SessionIds :
        (sessions[s].built \in {"ok", "firstTickThrew"}
           /\ sessions[s].level \notin EnergyIds)
        => sessions[s].energy = energyColors.medium

-----------------------------------------------------------------------------
(* The parameter set, the particle buffer and the animation *)

Built(s) == sessions[s].built \in {"ok", "firstTickThrew"}

(* C11: a session constructed for high, medium or low has the parameter    *)
(* set {0xff6b6b, 2}, {0x4ecdc4, 1.5}, {0x95a5a6, 1} (intensities in       *)
(* tenths), on its materials and its light too, whichever sessions and     *)
(* ticks came before and however many ticks it has run. (Spec)             *)
C11_FixedMapping ==
    \A s \in SessionIds :
        Built(s) =>
            LET e == sessions[s].energy
                c == sessions[s].level
            IN  /\ c = "high" => (e.color = 16739179 /\ e.intensity = 20)
                /\ c = "medium" => (e.color = 5164484 /\ e.intensity = 15)
                /\ c = "low" => (e.color = 9807270 /\ e.intensity = 10)
                /\ sessions[s].materialColor = e.color
                /\ sessions[s].lightColor = e.color

C11_Witness ==
    /\ Built(1) /\ sessions[1].level = "low" /\ sessions[1].ticks >= 2
    /\ Built(2) /\ sessions[2].level = "high" /\ sessions[2].ticks >= 2
    /\ sessions[2].energy.color = 16739179

(* C12: the position array of a session has 3 * 1000 elements, and no step *)
(* (a tick in particular) gives the session another array or changes the   *)
(* array's length. (Spec)                                                  *)
C12_BufferFixed ==
    /\ [](\A s \in SessionIds :
            Built(s) => /\ sessions[s].positionArray # 0
                        /\ buffers[sessions[s].positionArray].len = 3000)
    /\ [][\A s \in SessionIds :
            Built(s) =>
                /\ sessions'[s].positionArray = sessions[s].positionArray
                /\ buffers'[sessions[s].positionArray].len
                       = buffers[sessions[s].positionArray].len]_vars

C12_Witness ==
    \E s \in SessionIds :
        /\ Built(s) /\ sessions[s].ticks >= 3
        /\ buffers[sessions[s].positionArray].len = 3000
        /\ buffers[sessions[s].positionArray].data # sessions[s].initial

(* C13: two sessions never hold the same position array; the array a       *)
(* construction gives its session was not allocated before; a step that    *)
(* changes the contents of an array is a tick of the one session that      *)
(* holds it. (Spec)                                                        *)
C13_BufferOwned ==
    /\ [](\A s1, s2 \in SessionIds :
            (Built(s1) /\ Built(s2) /\ s1 # s2)
            => sessions[s1].positionArray # sessions[s2].positionArray)
    /\ [][\A s \in SessionIds :
            (~Built(s) /\ Built(s)')
            => buffers[sessions'[s].positionArray] = NoBuffer]_vars
    /\ [][\A b \in DOMAIN buffers :
            (buffers[b] # NoBuffer /\ buffers'[b] # buffers[b])
            => \E s \in SessionIds :
                  /\ Built(s) /\ sessions[s].positionArray = b
                  /\ sessions'[s].ticks = sessions[s].ticks + 1
                  /\ \A o \in SessionIds \ {s} :
                        sessions'[o].ticks = sessions[o].ticks]_vars

C13_Witness ==
    /\ Built(1) /\ Built(2)
    /\ sessions[1].positionArray # sessions[2].positionArray
    /\ sessions[1].ticks >= 2 /\ sessions[2].ticks >= 2
    /\ buffers[sessions[2].positionArray].data # sessions[2].initial

PositionsOf(s) == buffers[sessions[s].positionArray].data

(* C14: what a tick leaves behind depends on that tick's elapsed time      *)
(* only: two sessions that started from the same fill and whose latest     *)
(* tick sampled the same time have the same particle positions, rotations  *)
(* and orb scale, and the same light intensity when their parameter sets   *)
(* agree, whatever ticks they ran before. (SpecAnim)                       *)
C14_PureFunctionOfTime ==
    \A s1, s2 \in SessionIds :
        (/\ Built(s1) /\ Built(s2)
         /\ sessions[s1].initial = sessions[s2].initial
         /\ sessions[s1].time = sessions[s2].time)
        => /\ PositionsOf(s1) = PositionsOf(s2)
           /\ sessions[s1].particlesRotation = sessions[s2].particlesRotation
           /\ sessions[s1].orbRotation = sessions[s2].orbRotation
           /\ sessions[s1].orbScale = sessions[s2].orbScale
           /\ sessions[s1].energy = sessions[s2].energy
              => sessions[s1].lightIntensity = sessions[s2].lightIntensity

(* C15: two sessions that started from the same fill and sampled the same  *)
(* sequence of times have the same particle positions. (SpecAnim)          *)
C15_Deterministic ==
    \A s1, s2 \in SessionIds :
        (/\ Built(s1) /\ Built(s2)
         /\ sessions[s1].initial = sessions[s2].initial
         /\ sessions[s1].times = sessions[s2].times)
        => PositionsOf(s1) = PositionsOf(s2)

C15_Witness ==
    /\ Built(1) /\ Built(2)
    /\ sessions[1].initial = sessions[2].initial
    /\ sessions[1].times = sessions[2].times
    /\ Len(sessions[1].times) >= 3
    /\ PositionsOf(1) = PositionsOf(2)
    /\ PositionsOf(1) # sessions[1].initial

-----------------------------------------------------------------------------
(* Resizing *)

MountSize == <<mountWidth, MountHeight>>

UpToDate(s) == /\ sessions[s].cameraAspect = MountSize
               /\ sessions[s].rendererSize = MountSize

(* C16: where the size of the container changes with window resize events  *)
(* only, an Active session's camera aspect and renderer size are those of  *)
(* the container's current size, after any number of resizes. (Spec)       *)
C16_LastWriteWins ==
    \A s \in SessionIds : Active(s) => UpToDate(s)

(* An Active session follows a resize that a session disposed earlier did  *)
(* not see.                                                                *)
C16_Witness ==
    /\ Disposed(1) /\ sessions[1].rendererSize # MountSize
    /\ Active(2) /\ UpToDate(2) /\ sessions[2].ticks >= 1

(* C17: whenever the container's size differs from what an Active session  *)
(* draws with, the session's camera aspect and renderer size are           *)
(* eventually updated to it (or the session is Active no longer).          *)
(* (SpecLayout)                                                            *)
C17_EverySizeChangeForwarded ==
    \A s \in SessionIds :
        (Active(s) /\ ~UpToDate(s)) ~> (~Active(s) \/ UpToDate(s))

-----------------------------------------------------------------------------
(* Construction failure and the animation loop *)

(* C18: a session whose renderer could not be created leaves nothing       *)
(* behind: sceneRef does not hold its scene, no canvas of it is attached,  *)
(* no listener of it is registered, no frame request of it is pending.     *)
(* (Spec)                                                                  *)
C18_NoPartialSession ==
    \A s \in SessionIds :
        sessions[s].built = "noContext"
        => /\ sceneRef # s
           /\ s \notin mountChildren
           /\ s \notin listeners
           /\ Pending(s) = {}

(* C19: the steps of a session's latest tick, when it did not throw, are   *)
(* in the order sample the clock, update, render, request the next frame.  *)
(* (Spec)                                                                  *)
C19_TickOrder ==
    \A s \in SessionIds :
        (sessions[s].ticks > 0 /\ ~sessions[s].lastTickThrew)
        => sessions[s].tickSteps
             = <<"getElapsedTime", "update", "render", "requestAnimationFrame">>

RECURSIVE TicksUpTo(_)
TicksUpTo(n) == IF n = 0 THEN 0 ELSE sessions[n].ticks + TicksUpTo(n - 1)

(* C20: at most one frame request is pending, and the number of requests   *)
(* issued so far is the number of ticks run so far (one per tick). (Spec)  *)
C20_SingleLoop ==
    /\ Cardinality(rafPending) <= 1
    /\ nextRafId - 1 = TicksUpTo(MaxSessions)

(* The second session's loop runs after the first session's loop ran and   *)
(* was cancelled                                                           *)
C20_Witness ==
    /\ Disposed(1) /\ sessions[1].ticks >= 2
    /\ Active(2) /\ sessions[2].ticks >= 2
    /\ Cardinality(rafPending) = 1

-----------------------------------------------------------------------------
(* The life of a session, its viewport and its colours *)

(* C21: an Active session always has a frame request pending (it stops     *)
(* ticking only through its cleanup); a session leaves Active only by a    *)
(* run of its cleanup; a Disposed session stays Disposed, has no request   *)
(* pending and no listener, and no step ticks or resizes it. (Spec)        *)
C21_DisposedIsTerminal ==
    /\ [](\A s \in SessionIds :
            /\ Active(s) => Pending(s) # {}
            /\ Disposed(s) => (Pending(s) = {} /\ s \notin listeners))
    /\ [][\A s \in SessionIds :
            /\ (Active(s) /\ ~Active(s)')
               => (Disposed(s)'
                   /\ sessions'[s].cleanupRuns = sessions[s].cleanupRuns + 1)
            /\ Disposed(s)
               => /\ Disposed(s)'
                  /\ sessions'[s].ticks = sessions[s].ticks
                  /\ sessions'[s].drawCalls = sessions[s].drawCalls
                  /\ sessions'[s].cameraAspect = sessions[s].cameraAspect
                  /\ sessions'[s].rendererSize = sessions[s].rendererSize]_vars

(* A session disposed after three ticks, with a later session ticking and  *)
(* resized since                                                           *)
C21_Witness ==
    /\ Disposed(1) /\ sessions[1].ticks = 3
    /\ sessions[1].cameraAspect # MountSize
    /\ Active(2) /\ sessions[2].ticks >= 2 /\ UpToDate(2)

(* C22: a constructed session's camera aspect and renderer size are those  *)
(* of the container when construction ends, and a step changes them only   *)
(* if it is a window resize delivered to the session's handler, which      *)
(* sets them to the container's new size; a tick leaves them unchanged.    *)
(* (Spec)                                                                  *)
C22_ViewportOnlyByResize ==
    /\ [][\A s \in SessionIds :
            (~Built(s) /\ Built(s)')
            => /\ sessions'[s].cameraAspect = <<mountWidth, MountHeight>>
               /\ sessions'[s].rendererSize = <<mountWidth, MountHeight>>]_vars
    /\ [][\A s \in SessionIds :
            (/\ Built(s)
             /\ \/ sessions'[s].cameraAspect # sessions[s].cameraAspect
                \/ sessions'[s].rendererSize # sessions[s].rendererSize)
            => /\ mountWidth' # mountWidth
               /\ s \in listeners
               /\ sessions'[s].ticks = sessions[s].ticks
               /\ sessions'[s].cameraAspect = <<mountWidth', MountHeight>>
               /\ sessions'[s].rendererSize = <<mountWidth', MountHeight>>]_vars

C22_Witness ==
    \E s \in SessionIds :
        /\ Active(s) /\ sessions[s].ticks = 3 /\ UpToDate(s)
        /\ \E o \in SessionIds : Disposed(o) /\ ~UpToDate(o)

(* C23: the colours of the particle material, the orb material and the     *)
(* light are the colour of the session's parameter set, the opacities are  *)
(* 0.8 and 0.6, and no step (tick, resize, cleanup) changes any of them    *)
(* or the parameter set of a constructed session. (Spec)                   *)
C23_ColoursFixed ==
    /\ [](\A s \in SessionIds :
            Built(s)
            => /\ sessions[s].materialColor = sessions[s].energy.color
               /\ sessions[s].orbColor = sessions[s].energy.color
               /\ sessions[s].lightColor = sessions[s].energy.color
               /\ sessions[s].particlesOpacity = 80
               /\ sessions[s].orbOpacity = 60)
    /\ [][\A s \in SessionIds :
            Built(s)
            => /\ sessions'[s].energy = sessions[s].energy
               /\ sessions'[s].materialColor = sessions[s].materialColor
               /\ sessions'[s].orbColor = sessions[s].orbColor
               /\ sessions'[s].lightColor = sessions[s].lightColor
               /\ sessions'[s].particlesOpacity = sessions[s].particlesOpacity
               /\ sessions'[s].orbOpacity = sessions[s].orbOpacity]_vars

(* Ticks have changed the rotations, the scale, the positions and the      *)
(* light intensity of a session of level low                               *)
C23_Witness ==
    \E s \in SessionIds :
        /\ Built(s) /\ sessions[s].ticks >= 2
        /\ sessions[s].orbColor = 9807270 /\ sessions[s].orbOpacity = 60
        /\ sessions[s].orbRotation # <<0, 0>>
        /\ sessions[s].orbScale # 1000
        /\ sessions[s].lightIntensity # 1000
        /\ PositionsOf(s) # sessions[s].initial

-----------------------------------------------------------------------------
(* Selections, particle coordinates, canvases and listeners *)

(* C24: once a level is selected, the number of sessions constructed is 1  *)
(* plus the number of later clicks that changed the selected level; a      *)
(* click on the selected level's card disposes and constructs nothing,     *)
(* and a step that changes the selected level constructs one session.      *)
(* (SpecSelect)                                                            *)
C24_RecreatedOnChangeOnly ==
    /\ [](IF selectedEnergy = Null THEN nSessions = 0
          ELSE nSessions = 1 + clicks.changed)
    /\ [][clicks'.same # clicks.same
          => /\ nSessions' = nSessions
             /\ sessions' = sessions
             /\ effectDestroy' = effectDestroy
             /\ UNCHANGED <<buffers, listeners, rafPending, mountChildren>>]_vars
    /\ [][selectedEnergy' # selectedEnergy
          => /\ nSessions' = nSessions + 1
             /\ \A s \in SessionIds : Active(s) => Disposed(s)']_vars

C24_Witness ==
    /\ clicks = [changed |-> 1, same |-> 2]
    /\ nSessions = 2 /\ Disposed(1) /\ Active(2)
    /\ sessions[1].cleanupRuns = 1

(* C25: after any number of ticks the x and z coordinates of a session's   *)
(* particles are those of the initial fill and were never written, and     *)
(* every y coordinate was written once per tick. (SpecAnim)                *)
C25_OnlyYWritten ==
    \A s \in SessionIds :
        Built(s)
        => LET b == buffers[sessions[s].positionArray]
           IN  \A i \in DOMAIN b.data :
                  IF i % 3 = 2
                  THEN b.writes[i] = sessions[s].ticks
                  ELSE /\ b.data[i] = sessions[s].initial[i]
                       /\ b.writes[i] = 0

C25_Witness ==
    \E s \in SessionIds :
        /\ Built(s) /\ sessions[s].ticks = 3
        /\ \A i \in DOMAIN PositionsOf(s) :
              (i % 3 = 2) = (PositionsOf(s)[i] # sessions[s].initial[i])

(* C26: the container never has more than one canvas child; while the      *)
(* container exists, the canvas of an Active session is its only child     *)
(* and no canvas of a Disposed session is a child. (Spec)                  *)
C26_OneCanvas ==
    /\ Cardinality(mountChildren) <= 1
    /\ mountRef => \A s \in SessionIds :
                      /\ Active(s) => mountChildren = {s}
                      /\ Disposed(s) => s \notin mountChildren

C26_Witness ==
    /\ mountRef /\ Disposed(1) /\ Active(2) /\ mountChildren = {2}
    /\ sessions[1].log # << >>

(* C27: the sessions whose handleResize is registered on the window are    *)
(* exactly the Active sessions, at most one; a step that makes a session   *)
(* Active registers its handler, a step that disposes it removes that      *)
(* handler, and no step resizes a Disposed session. (Spec)                 *)
C27_ListenersAreActive ==
    /\ [](/\ listeners = {s \in SessionIds : Active(s)}
          /\ Cardinality(listeners) <= 1)
    /\ [][\A s \in SessionIds :
            /\ (~Built(s) /\ Active(s)')
               => (s \notin listeners /\ s \in listeners')
            /\ (Active(s) /\ Disposed(s)')
               => (s \in listeners /\ s \notin listeners')
            /\ Disposed(s)
               => sessions'[s].rendererSize = sessions[s].rendererSize]_vars

C27_Witness ==
    /\ Disposed(1) /\ ~UpToDate(1) /\ 1 \notin listeners
    /\ Active(2) /\ UpToDate(2) /\ listeners = {2}

(* C28: the step that constructs a session leaves it with one tick run at  *)
(* elapsed time 0, one frame drawn and one frame request pending; an       *)
(* Active session has drawn at least one frame. (Spec)                     *)
C28_FirstTickInConstruction ==
    /\ [](\A s \in SessionIds :
            Active(s) => (sessions[s].ticks >= 1 /\ sessions[s].drawCalls >= 1))
    /\ [][\A s \in SessionIds :
            (~Built(s) /\ Active(s)')
            => /\ sessions'[s].ticks = 1
               /\ sessions'[s].times = <<0>>
               /\ sessions'[s].drawCalls = 1
               /\ Cardinality({r \in rafPending' : r[2] = s}) = 1]_vars

C28_Witness ==
    \E s \in SessionIds :
        /\ Active(s) /\ sessions[s].ticks = 1 /\ sessions[s].drawCalls = 1
        /\ Cardinality(Pending(s)) = 1

(* C29: while App is mounted, the container of the visualization exists    *)
(* exactly when a level is selected, and then a session is Active; the     *)
(* selection is null, high, medium or low, and a step never takes it from  *)
(* a level back to null. (Spec)                                            *)
C29_MountedIffSelected ==
    /\ [](/\ selectedEnergy \in EnergyIds \cup {Null}
          /\ appMounted => /\ mountRef <=> selectedEnergy # Null
                           /\ selectedEnergy # Null
                              => \E s \in SessionIds : Active(s))
    /\ [][selectedEnergy # Null => selectedEnergy' # Null]_vars

C29_Witness ==
    /\ appMounted /\ mountRef /\ selectedEnergy = "medium"
    /\ nSessions = 2 /\ Active(2) /\ sessions[2].level = "medium"

(* The state in which the effect would find no container *)
Detached == [World EXCEPT !.mountRef = FALSE]

(* C30: the frame requests pending for an Active session are the one       *)
(* whose id animationIdRef holds, and the step that disposes the session   *)
(* removes that request from the queue; an effect run that finds no        *)
(* container changes nothing. (Spec)                                       *)
C30_HandleIsPendingRequest ==
    /\ [](\A s \in SessionIds :
            Active(s) => Pending(s) = {<<animationIdRef, s>>})
    /\ [](\A level \in EnergyIds, glOk \in BOOLEAN, broken \in BOOLEAN :
            effect(Detached, level, glOk, broken, DefaultFill) = Detached)
    /\ [][\A s \in SessionIds :
            (Active(s) /\ Disposed(s)')
            => /\ <<animationIdRef, s>> \in rafPending
               /\ <<animationIdRef, s>> \notin rafPending']_vars

C30_Witness ==
    /\ Disposed(1) /\ sessions[1].ticks >= 2
    /\ Active(2) /\ sessions[2].ticks >= 2
    /\ rafPending = {<<animationIdRef, 2>>}
    /\ animationIdRef = nextRafId - 1


====
